---- MODULE Spec2Model ----
(***************************************************************************)
(* Model of the federated aggregation engine, src/modules/core/            *)
(* fl_engine.py: ModelRegistry and FedAvgEngine (run_round,                *)
(* run_simulation, get_summary).                                           *)
(*                                                                         *)
(* Units.  Floats are kept as scaled integers:                             *)
(*   accuracy, loss      1/1000   (0.86  -> 860)                           *)
(*   weight_divergence   1/1000   (0.01  -> 10)                            *)
(*   dp_sigma            1/100    (0.15  -> 15)                            *)
(*   privacy_epsilon     1/10000  (9.6896 -> 96896), or +infinity          *)
(* A weight tensor is an array object: id names the object (which          *)
(* allocation made it), data abstracts its content to the index of the     *)
(* run_round execution whose aggregation produced it (0 = the tensor drawn *)
(* at construction).  A copy is a new object with the same data; two       *)
(* references to one array are equal records.                              *)
(* In Spec the draws of the per-node accuracies are kept at their mean;    *)
(* SpecRound follows run_round node by node and varies them.               *)
(* The process-wide random source is the nondeterministic choice of each   *)
(* round's draws (\E noise, div).                                          *)
(***************************************************************************)
EXTENDS Integers, Sequences, FiniteSets, TLC

VARIABLES
    n_hospitals,      \* FedAvgEngine.n_hospitals
    dp_enabled,       \* FedAvgEngine.dp_enabled
    dp_sigma,         \* FedAvgEngine.dp_sigma
    hospitals,        \* FedAvgEngine.hospitals: sequence of HospitalNode
    global_weights,   \* FedAvgEngine.global_weights
    round_history,    \* FedAvgEngine.round_history: sequence of FLRound
    registry,         \* FedAvgEngine.registry: ModelRegistry
    pc,               \* "idle", "sim" inside run_simulation's loop,
                      \* "round" inside run_round's loop over the nodes,
                      \* "render" inside the dashboard's loop and
                      \* "render_summary" after it
    sim_r,            \* run_simulation: loop variable r (0 outside the loop);
                      \* the dashboard's loop variable round_num
    sim_n,            \* run_simulation: argument n_rounds (0 outside the
                      \* loop); the dashboard's n_rounds
    ret,              \* outcome of the most recent finished call
    round_locals,     \* local variables of run_round, as last written
    execs,            \* run_round executions that reached the aggregation
    noisy_draws,      \* random draws so far that were not the quiet ones
    calls,            \* public calls made so far
    data_queue,       \* main.py: data_queue, the items not yet taken
    futures,          \* main.py: the future of each request that made one
    worker,           \* main.py: FIFOProcessor.worker, position and item
    handlers,         \* main.py: the analyze_full handlers, position and input
    put_log,          \* the requests in the order of their data_queue.put
    task_done_calls   \* data_queue.task_done() calls, per request

\* the API server's request queue (src/main.py)
server == <<data_queue, futures, worker, handlers, put_log, task_done_calls>>

\* the engine and its registry (src/modules/core/fl_engine.py)
engine == <<n_hospitals, dp_enabled, dp_sigma, hospitals, global_weights,
            round_history, registry, pc, sim_r, sim_n, ret, round_locals,
            execs, noisy_draws, calls>>

vars == <<n_hospitals, dp_enabled, dp_sigma, hospitals, global_weights,
          round_history, registry, pc, sim_r, sim_n, ret, round_locals,
          execs, noisy_draws, calls, data_queue, futures, worker, handlers,
          put_log, task_done_calls>>

config == <<n_hospitals, dp_enabled, dp_sigma>>

-----------------------------------------------------------------------------
(* Bounds of the model *)

\* public calls (run_round, run_simulation) made on one engine
MaxCalls == 2
\* random draws per engine that differ from the quiet draw
MaxNoisy == 1
\* rounds executed on one engine
MaxExec == 20

\* the nodes' n_samples of the engines that are built, one entry per node
\* (np.random.randint(150, 800, n_hospitals)): engines of 0, 1 and 2 nodes
SampleVectors == {<<>>, <<799>>, <<799, 150>>}
\* dp_sigma of the engines that are built (-0.15, 0, 0.15)
SigmaChoices == {-15, 0, 15}
\* <<dp_enabled, dp_sigma>> of the engines that are built; with dp disabled
\* dp_sigma is never read, and the engines are built with the negative one
EngineConfigs ==
    {<<TRUE, sigma>> : sigma \in SigmaChoices} \cup {<<FALSE, -15>>}
\* round_num arguments of direct run_round calls
RoundNums == {11, 16}
\* n_rounds arguments of run_simulation calls
SimRounds == {0, 2, 17}
\* measurement noise of _compute_accuracy, np.random.normal(0, 0.008)
NoiseChoices == {-80, 0}
\* mean distance of the local updates to the aggregate, for two or more nodes
DivChoices == {9, 10}
\* the second draw of a node's accuracy, np.random.normal(0, 0.01)
NodeNoiseChoices == {-160, 0, 150}
\* round_num arguments of the run_round calls followed node by node
LoopRoundNums == {1, 16}

-----------------------------------------------------------------------------
(* Program constants *)

AccMin == 500              \* np.clip(..., 0.50, 0.99)
AccMax == 990
AccScale == 1000           \* 1.0 in accuracy units (global_loss = 1.0 - acc)
RollbackMargin == 50       \* prev_best.accuracy - 0.05
DivergenceThreshold == 10  \* w_divergence < 0.01
ConvergenceFloor == 10     \* round_num >= 10
EarlyStopAfter == 15       \* r > 15
EpsFactor == 48448         \* sqrt(2 * ln(1.25 / 1e-5)) = 4.8448
SigmaScale == 100          \* 1.0 in dp_sigma units
NoBest == -1               \* ModelRegistry.best_version_id sentinel
DashboardStopAfter == 10   \* page_fl_simulation.py: round_num > 10
QuietNoise == 0            \* the mean of np.random.normal(0, 0.008)

\* the quiet draws: the noise at its mean, the divergence at the threshold
QuietDiv == DivergenceThreshold

-----------------------------------------------------------------------------
(* Values *)

\* float('inf') and finite floats of privacy_epsilon
Inf == [inf |-> TRUE, val |-> 0]
Fin(v) == [inf |-> FALSE, val |-> v]

Min(a, b) == IF a < b THEN a ELSE b
Max(a, b) == IF a > b THEN a ELSE b

\* np.clip(x, lo, hi)
clip(x, lo, hi) == Max(lo, Min(x, hi))

Last(s) == s[Len(s)]

\* an array object: id = <<what allocated it, which allocation>>
Tensor(id, data) == [id |-> id, data |-> data]

\* w.copy(): the n-th copy a registry makes, a new array with w's content
copy(w, n) == Tensor(<<"copy", n>>, w.data)

\* no array
NoTensor == Tensor(<<"none", 0>>, 0)

-----------------------------------------------------------------------------
(* ModelRegistry *)

ModelVersion(version_id, weights, accuracy) ==
    [version_id |-> version_id, weights |-> weights, accuracy |-> accuracy]

\* ModelRegistry.__init__; copies counts the arrays this registry has
\* allocated with weights.copy()
EmptyRegistry == [versions |-> <<>>, best_version_id |-> NoBest, copies |-> 0]

\* mutant: the comparison is >=
save_version_ge(reg, version_id, weights, accuracy) ==
    LET versions == [k \in (DOMAIN reg.versions) \cup {version_id} |->
                        IF k = version_id
                        THEN [version_id |-> version_id,
                              weights |-> copy(weights, reg.copies + 1),
                              accuracy |-> accuracy]
                        ELSE reg.versions[k]]
    IN  [versions |-> versions,
         copies |-> reg.copies + 1,
         best_version_id |->
            IF reg.best_version_id = NoBest
               \/ accuracy >= versions[reg.best_version_id].accuracy
            THEN version_id
            ELSE reg.best_version_id]

\* ModelRegistry.save_version: the entry is written first, the comparison
\* then reads the (possibly just overwritten) entry of the best pointer
save_version(reg, version_id, weights, accuracy) ==
    LET versions == [k \in (DOMAIN reg.versions) \cup {version_id} |->
                        IF k = version_id
                        THEN ModelVersion(version_id,
                                          copy(weights, reg.copies + 1),
                                          accuracy)
                        ELSE reg.versions[k]]
    IN  [versions |-> versions,
         copies |-> reg.copies + 1,
         best_version_id |->
            IF reg.best_version_id = NoBest
               \/ accuracy > versions[reg.best_version_id].accuracy
            THEN version_id
            ELSE reg.best_version_id]

\* ModelRegistry.get_best: <<>> is None, <<v>> is the version v
get_best(reg) ==
    IF reg.best_version_id = NoBest THEN <<>>
    ELSE <<reg.versions[reg.best_version_id]>>

\* ModelRegistry.get_latest: <<>> is None, else the version of the largest id
get_latest(reg) ==
    IF DOMAIN reg.versions = {} THEN <<>>
    ELSE <<reg.versions[CHOOSE k \in DOMAIN reg.versions :
                           \A j \in DOMAIN reg.versions : j <= k]>>

-----------------------------------------------------------------------------
(* FedAvgEngine: pure parts *)

\* 0.60 + (0.86 - 0.60) / (1 + exp(-0.4 * (round_num - 8))), rounded, for
\* round_num = 1..25
BaseTable == <<615, 622, 631, 644, 660, 681, 704, 730, 756, 779, 800, 816,
               829, 838, 845, 850, 853, 855, 857, 858, 859, 859, 859, 860, 860>>

LogisticBase(round_num) ==
    IF round_num < 1 THEN 600
    ELSE IF round_num > Len(BaseTable) THEN 860
    ELSE BaseTable[round_num]

\* a weight tensor's coordinate as an exact fraction num/den
Frac(num, den) == [num |-> num, den |-> den]

\* sum(sample_counts)
RECURSIVE SumCounts(_)
SumCounts(counts) ==
    IF counts = <<>> THEN 0 ELSE counts[1] + SumCounts(Tail(counts))

\* w[1] + ... + w[k]
RECURSIVE SumFirst(_, _)
SumFirst(w, k) == IF k = 0 THEN 0 ELSE w[k] + SumFirst(w, k - 1)

\* mutant: every node weighs the same
fedavg_aggregate_unweighted(local_weights, sample_counts) ==
    LET k == Min(Len(local_weights), Len(sample_counts))
    IN  IF k = 0 THEN Frac(0, 1) ELSE Frac(SumFirst(local_weights, k), k)

\* _fedavg_aggregate's loop: for w, n in zip(local_weights, sample_counts):
\* aggregated += (n / total_samples) * w.  zip stops at the shorter list.
\* Every term has the denominator total_samples.
RECURSIVE fedavg_loop(_, _, _, _)
fedavg_loop(local_weights, sample_counts, total_samples, aggregated) ==
    IF local_weights = <<>> \/ sample_counts = <<>> THEN aggregated
    ELSE fedavg_loop(Tail(local_weights), Tail(sample_counts), total_samples,
                     Frac(aggregated.num + sample_counts[1] * local_weights[1],
                          total_samples))

\* _fedavg_aggregate for a non-empty local_weights, on one coordinate of the
\* tensors: np.zeros_like(local_weights[0]) is 0/1, then the loop
fedavg_aggregate(local_weights, sample_counts) ==
    fedavg_loop(local_weights, sample_counts, SumCounts(sample_counts),
                Frac(0, 1))

\* mutant: only an empty sample_counts makes the call fail
aggregate_raises_counts(local_weights, sample_counts) == sample_counts = <<>>

\* _fedavg_aggregate raises: local_weights[0] of an empty list (IndexError),
\* or n / total_samples with total_samples = 0 (ZeroDivisionError)
aggregate_raises(local_weights, sample_counts) ==
    \/ local_weights = <<>>
    \/ sample_counts # <<>> /\ SumCounts(sample_counts) = 0

\* FedAvgEngine._compute_accuracy, with the draw of its noise as a parameter
compute_accuracy(round_num, noise) ==
    clip(LogisticBase(round_num) + noise, AccMin, AccMax)

\* mutant: the factor is multiplied by sigma instead of divided
compute_epsilon_times(sigma, n_samples) ==
    IF sigma = 0 THEN Inf
    ELSE Fin((EpsFactor * sigma) \div SigmaScale)

\* mutant: the budget grows with the sample count
compute_epsilon_per_sample(sigma, n_samples) ==
    IF sigma = 0 THEN Inf
    ELSE IF sigma > 0 THEN Fin(((EpsFactor * SigmaScale) \div sigma) + n_samples)
    ELSE Fin(-((EpsFactor * SigmaScale) \div (-sigma)))

\* FedAvgEngine._compute_epsilon: n_samples is not used by the code
compute_epsilon(sigma, n_samples) ==
    IF sigma = 0 THEN Inf
    ELSE IF sigma > 0 THEN Fin((EpsFactor * SigmaScale) \div sigma)
    ELSE Fin(-((EpsFactor * SigmaScale) \div (-sigma)))

\* min(sample_counts) over the nodes
SeqMin(s) == CHOOSE m \in {s[i] : i \in 1..Len(s)} :
                \A i \in 1..Len(s) : m <= s[i]

sample_counts == [i \in 1..Len(hospitals) |-> hospitals[i].n_samples]

\* mutant: the first node's n_samples is passed
epsilon_samples_first == sample_counts[1]

\* the n_samples argument run_round passes to _compute_epsilon
epsilon_samples == SeqMin(sample_counts)

\* mutant: epsilon is computed whether or not dp is enabled
round_epsilon_always == compute_epsilon(dp_sigma, epsilon_samples)

\* the privacy_epsilon run_round reports
round_epsilon ==
    IF dp_enabled THEN compute_epsilon(dp_sigma, epsilon_samples)
    ELSE Fin(0)

\* mutant: the round floor is missing
is_converged_no_floor(w_divergence, round_num) ==
    w_divergence < DivergenceThreshold

\* converged=(w_divergence < 0.01 and round_num >= 10)
is_converged(w_divergence, round_num) ==
    w_divergence < DivergenceThreshold /\ round_num >= ConvergenceFloor

\* mutant: a negative scale is accepted by the noise draw
round_raises_empty_only == n_hospitals = 0

\* run_round raises before it writes anything: np.random.normal rejects a
\* negative scale in _add_dp_noise (first node), and _fedavg_aggregate
\* indexes local_weights[0] of an empty list
round_raises ==
    \/ n_hospitals = 0
    \/ dp_enabled /\ dp_sigma < 0

\* the divergences a round can measure: one node aggregates to itself
DivDraws == IF n_hospitals = 1 THEN {0} ELSE DivChoices

\* how many of a round's two draws are not the quiet ones
Noisy(noise, div) ==
    (IF noise = QuietNoise THEN 0 ELSE 1) + (IF div \in {0, QuietDiv} THEN 0 ELSE 1)

\* mutant: the margin is 0.10
rollback_needed_wide(prev_best, global_acc) ==
    /\ prev_best # <<>>
    /\ global_acc < prev_best[1].accuracy - 2 * RollbackMargin

\* mutant: the comparison is <=
rollback_needed_le(prev_best, global_acc) ==
    /\ prev_best # <<>>
    /\ global_acc <= prev_best[1].accuracy - RollbackMargin

\* the rollback test of run_round
rollback_needed(prev_best, global_acc) ==
    /\ prev_best # <<>>
    /\ global_acc < prev_best[1].accuracy - RollbackMargin

\* a node's update: _simulate_local_training(node, self.global_weights),
\* plus _add_dp_noise(w_local, node.n_samples) with dp enabled.  The update is
\* kept as what it was computed from: the global weights and the n_samples
\* that were read.
local_update(node, weights) ==
    [base |-> weights, n_samples |-> node.n_samples, dp_noise |-> dp_enabled]

\* mutant: the second clip is missing
node_accuracy_unclipped(round_num, noise, node_noise) ==
    compute_accuracy(round_num, noise) + node_noise

\* np.clip(_compute_accuracy(w_local, round_num) + normal(0, 0.01), 0.5, 0.99)
node_accuracy(round_num, noise, node_noise) ==
    clip(compute_accuracy(round_num, noise) + node_noise, AccMin, AccMax)

\* run_round's locals before the first node
EmptyLoop == [local_weights |-> <<>>, sample_counts |-> <<>>,
              node_accuracies |-> <<>>]

\* mutant: every update is computed from the first node's data
node_iteration_first_node(loop, round_num, node, noise, node_noise) ==
    [local_weights |->
        Append(loop.local_weights, local_update(hospitals[1], global_weights)),
     sample_counts |-> Append(loop.sample_counts, node.n_samples),
     node_accuracies |->
        [id \in (DOMAIN loop.node_accuracies) \cup {node.node_id} |->
            IF id = node.node_id
            THEN node_accuracy(round_num, noise, node_noise)
            ELSE loop.node_accuracies[id]]]

\* one iteration of run_round's loop over self.hospitals
node_iteration(loop, round_num, node, noise, node_noise) ==
    [local_weights |->
        Append(loop.local_weights, local_update(node, global_weights)),
     sample_counts |-> Append(loop.sample_counts, node.n_samples),
     node_accuracies |->
        [id \in (DOMAIN loop.node_accuracies) \cup {node.node_id} |->
            IF id = node.node_id
            THEN node_accuracy(round_num, noise, node_noise)
            ELSE loop.node_accuracies[id]]]

\* the loop over the first k nodes with every draw at its mean
RECURSIVE quiet_loop(_, _)
quiet_loop(round_num, k) ==
    IF k = 0 THEN EmptyLoop
    ELSE node_iteration(quiet_loop(round_num, k - 1), round_num, hospitals[k],
                        QuietNoise, QuietNoise)

\* run_round from the aggregation on: the FLRound it builds, the registry and
\* the global weights it leaves.  loop holds the locals the node loop left,
\* candidate is the freshly aggregated tensor.
round_outcome(round_num, loop, candidate, noise, w_divergence) ==
    LET acc0 == compute_accuracy(round_num, noise)
        prev_best == get_best(registry)
        rollback_active == rollback_needed(prev_best, acc0)
        new_global == IF rollback_active THEN prev_best[1].weights ELSE candidate
        global_acc == IF rollback_active THEN prev_best[1].accuracy ELSE acc0
    IN  [result |->
            [round_num |-> round_num,
             global_accuracy |-> global_acc,
             global_loss |-> AccScale - global_acc,
             node_accuracies |-> loop.node_accuracies,
             weight_divergence |-> w_divergence,
             privacy_epsilon |-> round_epsilon,
             secure_agg_status |-> IF rollback_active
                                   THEN "Safe Rollback Applied"
                                   ELSE "Rollback Strategy Active",
             converged |-> is_converged(w_divergence, round_num)],
         registry |-> save_version(registry, round_num, new_global, global_acc),
         global_weights |-> new_global,
         locals |->
            [round_num |-> round_num,
             local_weights |-> loop.local_weights,
             sample_counts |-> loop.sample_counts,
             node_accuracies |-> loop.node_accuracies,
             new_global |-> candidate,
             global_acc |-> acc0,
             prev_best |-> prev_best,
             rollback_active |-> rollback_active,
             dp_noise_calls |-> IF dp_enabled THEN n_hospitals ELSE 0,
             eps_n_samples |-> IF dp_enabled THEN epsilon_samples ELSE 0]]

\* the locals before any round has run
NoRound ==
    [round_num |-> 0, local_weights |-> <<>>, sample_counts |-> <<>>,
     node_accuracies |-> <<>>, new_global |-> NoTensor, global_acc |-> 0, prev_best |-> <<>>,
     rollback_active |-> FALSE, dp_noise_calls |-> 0, eps_n_samples |-> 0]

\* mutant: the loop stops from round 15 on
early_stop_ge(result, r) == result.converged /\ r >= EarlyStopAfter

\* run_simulation: if result.converged and r > 15: break
early_stop(result, r) == result.converged /\ r > EarlyStopAfter

\* mutant: range(1, n_rounds)
range_done_short(r, n_rounds) == r >= n_rounds

\* run_simulation: range(1, n_rounds + 1) is exhausted at r
range_done(r, n_rounds) == r > n_rounds

\* sum(h.n_samples for h in self.hospitals)
RECURSIVE SeqSum(_)
SeqSum(s) == IF s = <<>> THEN 0 ELSE s[1] + SeqSum(Tail(s))

\* FedAvgEngine.get_summary for a non-empty history whose registry has a best
\* version
summary_of(history, reg) ==
    LET final == Last(history)
        best == get_best(reg)[1]
    IN  [final_accuracy |-> final.global_accuracy,
         best_accuracy |-> best.accuracy,
         best_round |-> best.version_id,
         total_rounds |-> Len(history),
         converged |-> final.converged,
         final_divergence |-> final.weight_divergence,
         final_epsilon |-> final.privacy_epsilon,
         n_hospitals |-> n_hospitals,
         total_samples |-> SeqSum(sample_counts)]

-----------------------------------------------------------------------------
(* Outcomes of calls *)

\* op: the call, arg: its argument, raised: it ended with an exception,
\* value: what it returned
NoCall == [op |-> "none", arg |-> 0, raised |-> FALSE, value |-> <<>>]
Returned(op, arg, value) ==
    [op |-> op, arg |-> arg, raised |-> FALSE, value |-> value]
Raised(op, arg) == [op |-> op, arg |-> arg, raised |-> TRUE, value |-> <<>>]

-----------------------------------------------------------------------------
(* Construction *)

\* the request queue when no server is running
NoServer ==
    /\ data_queue = <<>>
    /\ futures = <<>>
    /\ worker = [pc |-> "none", item |-> <<>>]
    /\ handlers = <<>>
    /\ put_log = <<>>
    /\ task_done_calls = <<>>

HospitalNode(i, n) ==
    [node_id |-> i, n_samples |-> n, weights |-> Tensor(<<"node", i>>, 0),
     last_loss |-> AccScale, rounds_participated |-> 0]

Init ==
    /\ \E cfg \in EngineConfigs :
          /\ dp_enabled = cfg[1]
          /\ dp_sigma = cfg[2]
    /\ \E sample_sizes \in SampleVectors :
          /\ n_hospitals = Len(sample_sizes)
          /\ hospitals = [i \in 1..Len(sample_sizes) |->
                             HospitalNode(i, sample_sizes[i])]
    /\ global_weights = Tensor(<<"init", 0>>, 0)
    /\ round_history = <<>>
    /\ registry = EmptyRegistry
    /\ pc = "idle"
    /\ sim_r = 0
    /\ sim_n = 0
    /\ ret = NoCall
    /\ round_locals = NoRound
    /\ execs = 0
    /\ noisy_draws = 0
    /\ calls = 0
    /\ NoServer

-----------------------------------------------------------------------------
(* Operations *)

\* the state run_round(round_num) leaves when it returns, its node loop
\* having left loop, with these draws
RoundWrites(round_num, loop, noise, div) ==
    LET new_global == Tensor(<<"aggregate", execs + 1>>, execs + 1)
        out == round_outcome(round_num, loop, new_global, noise, div)
    IN  /\ noisy_draws + Noisy(noise, div) <= MaxNoisy
        /\ noisy_draws' = noisy_draws + Noisy(noise, div)
        /\ execs' = execs + 1
        /\ round_locals' = out.locals
        /\ registry' = out.registry
        /\ global_weights' = out.global_weights
        /\ round_history' = Append(round_history, out.result)

\* mutant: the round counts itself on every node
nodes_after_round_counted ==
    [i \in DOMAIN hospitals |->
        [hospitals[i] EXCEPT !.rounds_participated = @ + 1]]

\* self.hospitals after a run_round call: the loop reads node.n_samples and
\* node.node_id, _simulate_local_training works on a copy of the global
\* weights, and no field of a node is assigned
nodes_after_round == hospitals

\* mutant: the exception leaves after the registry was written
RoundAborts_after_save(round_num) ==
    /\ registry' = save_version(registry, round_num,
                                Tensor(<<"aggregate", execs + 1>>, execs + 1),
                                compute_accuracy(round_num, QuietNoise))
    /\ UNCHANGED <<global_weights, round_history, round_locals, execs,
                   noisy_draws>>

\* the state run_round(round_num) leaves when it raises: both exceptions leave
\* from the node loop or the aggregation, before the first write (the
\* save_version call)
RoundAborts(round_num) ==
    UNCHANGED <<global_weights, round_history, registry, round_locals, execs,
                noisy_draws>>

\* FedAvgEngine.run_round(round_num), called directly
RunRoundDrawing(round_num, noises) ==
    /\ pc = "idle"
    /\ calls < MaxCalls
    /\ execs < MaxExec
    /\ calls' = calls + 1
    /\ IF round_raises
       THEN /\ ret' = Raised("run_round", round_num)
            /\ RoundAborts(round_num)
       ELSE \E noise \in noises, div \in DivDraws :
               /\ RoundWrites(round_num, quiet_loop(round_num, n_hospitals),
                              noise, div)
               /\ ret' = Returned("run_round", round_num, <<Last(round_history')>>)
    /\ hospitals' = nodes_after_round
    /\ UNCHANGED <<server, config, pc, sim_r, sim_n>>

RunRound(round_num) == RunRoundDrawing(round_num, NoiseChoices)

\* FedAvgEngine.run_simulation(n_rounds): entry, up to the loop
RunSimulation(n_rounds) ==
    /\ pc = "idle"
    /\ calls < MaxCalls
    /\ execs + n_rounds <= MaxExec
    /\ calls' = calls + 1
    /\ round_history' = <<>>
    /\ pc' = "sim"
    /\ sim_r' = 1
    /\ sim_n' = n_rounds
    /\ ret' = NoCall
    /\ UNCHANGED <<server, config, hospitals, global_weights, registry,
                   round_locals, execs, noisy_draws>>

\* one iteration of run_simulation's loop
SimRound ==
    /\ pc = "sim"
    /\ ~range_done(sim_r, sim_n)
    /\ IF round_raises
       THEN /\ ret' = Raised("run_simulation", sim_n)
            /\ pc' = "idle"
            /\ sim_r' = 0
            /\ sim_n' = 0
            /\ RoundAborts(sim_r)
       ELSE \E noise \in NoiseChoices, div \in DivDraws :
               /\ RoundWrites(sim_r, quiet_loop(sim_r, n_hospitals), noise, div)
               /\ IF early_stop(Last(round_history'), sim_r)
                  THEN /\ ret' = Returned("run_simulation", sim_n, round_history')
                       /\ pc' = "idle"
                       /\ sim_r' = 0
                       /\ sim_n' = 0
                  ELSE /\ sim_r' = sim_r + 1
                       /\ UNCHANGED <<pc, sim_n, ret>>
    /\ hospitals' = nodes_after_round
    /\ UNCHANGED <<server, config, calls>>

\* run_simulation: the loop's range is exhausted
SimReturn ==
    /\ pc = "sim"
    /\ range_done(sim_r, sim_n)
    /\ ret' = Returned("run_simulation", sim_n, round_history)
    /\ pc' = "idle"
    /\ sim_r' = 0
    /\ sim_n' = 0
    /\ UNCHANGED <<server, config, hospitals, global_weights, round_history, registry,
                   round_locals, execs, noisy_draws, calls>>

\* FedAvgEngine.get_summary: {} on an empty history; with no best version the
\* fallback reads final.accuracy, which an FLRound does not have
GetSummary ==
    /\ pc = "idle"
    /\ ret' = IF round_history = <<>> THEN Returned("get_summary", 0, <<>>)
              ELSE IF get_best(registry) = <<>> THEN Raised("get_summary", 0)
              ELSE Returned("get_summary", 0,
                            <<summary_of(round_history, registry)>>)
    /\ UNCHANGED <<server, config, hospitals, global_weights, round_history, registry,
                   pc, sim_r, sim_n, round_locals, execs, noisy_draws, calls>>

Next ==
    \/ \E round_num \in RoundNums : RunRound(round_num)
    \/ \E n_rounds \in SimRounds : RunSimulation(n_rounds)
    \/ SimRound
    \/ SimReturn
    \/ GetSummary

Spec == Init /\ [][Next]_vars

-----------------------------------------------------------------------------
(* run_round calls whose measurement noise stays inside the rollback margin *)

\* measurement noise of _compute_accuracy: far below the margin, inside the
\* margin, and none
NearNoiseChoices == {-80, -5, 0}

NextRounds ==
    \E round_num \in RoundNums : RunRoundDrawing(round_num, NearNoiseChoices)

SpecRounds == Init /\ [][NextRounds]_vars

-----------------------------------------------------------------------------
(* run_round followed node by node *)

\* run_round calls made on one engine
MaxLoopCalls == 2

\* how many of a node's two draws are not the quiet ones
NoisyNode(noise, node_noise) ==
    (IF noise = QuietNoise THEN 0 ELSE 1)
        + (IF node_noise = QuietNoise THEN 0 ELSE 1)

\* the locals the node loop has written so far
CurrentLoop ==
    [local_weights |-> round_locals.local_weights,
     sample_counts |-> round_locals.sample_counts,
     node_accuracies |-> round_locals.node_accuracies]

\* run_round(round_num): entry, up to the loop over the nodes
RoundEnter(round_num) ==
    /\ pc = "idle"
    /\ calls < MaxLoopCalls
    /\ execs < MaxExec
    /\ calls' = calls + 1
    /\ pc' = "round"
    /\ round_locals' = [NoRound EXCEPT !.round_num = round_num]
    /\ ret' = NoCall
    /\ UNCHANGED <<server, config, hospitals, global_weights, round_history, registry,
                   sim_r, sim_n, execs, noisy_draws>>

\* run_round: the loop body for the next node; _add_dp_noise raises for a
\* negative scale
NodeStep ==
    /\ pc = "round"
    /\ Len(round_locals.local_weights) < Len(hospitals)
    /\ LET node == hospitals[Len(round_locals.local_weights) + 1]
           round_num == round_locals.round_num
       IN  IF dp_enabled /\ dp_sigma < 0
           THEN /\ ret' = Raised("run_round", round_num)
                /\ pc' = "idle"
                /\ RoundAborts(round_num)
           ELSE \E noise \in NoiseChoices, node_noise \in NodeNoiseChoices :
                   LET loop == node_iteration(CurrentLoop, round_num, node,
                                              noise, node_noise)
                   IN  /\ noisy_draws + NoisyNode(noise, node_noise) <= MaxNoisy
                       /\ noisy_draws' = noisy_draws + NoisyNode(noise, node_noise)
                       /\ round_locals' =
                             [round_locals EXCEPT
                                 !.local_weights = loop.local_weights,
                                 !.sample_counts = loop.sample_counts,
                                 !.node_accuracies = loop.node_accuracies]
                       /\ UNCHANGED <<global_weights, round_history, registry,
                                      pc, ret, execs>>
    /\ UNCHANGED <<server, config, hospitals, sim_r, sim_n, calls>>

\* run_round after the loop: aggregation, rollback test, save_version, the
\* FLRound, the write of the global weights and the return
RoundFinish ==
    /\ pc = "round"
    /\ Len(round_locals.local_weights) = Len(hospitals)
    /\ pc' = "idle"
    /\ LET round_num == round_locals.round_num
       IN  IF aggregate_raises(round_locals.local_weights,
                               round_locals.sample_counts)
           THEN /\ ret' = Raised("run_round", round_num)
                /\ RoundAborts(round_num)
           ELSE \E noise \in NoiseChoices, div \in DivDraws :
                   /\ RoundWrites(round_num, CurrentLoop, noise, div)
                   /\ ret' = Returned("run_round", round_num,
                                      <<Last(round_history')>>)
    /\ hospitals' = nodes_after_round
    /\ UNCHANGED <<server, config, sim_r, sim_n, calls>>

NextRound ==
    \/ \E round_num \in LoopRoundNums : RoundEnter(round_num)
    \/ NodeStep
    \/ RoundFinish

SpecRound == Init /\ [][NextRound]_vars

-----------------------------------------------------------------------------
(* The dashboard's FL simulation page, modules/page_fl_simulation.py: render *)
(* builds an engine from the sliders and drives run_round itself            *)

\* the n_rounds slider (5..30)
DashRounds == {5, 12, 17}
\* the sigma slider (0.01..1.0)
DashSigmas == {1, 15}

\* if result.converged and round_num > 10: break
render_break(result, round_num) ==
    result.converged /\ round_num > DashboardStopAfter

\* render, up to its loop: the engine is built (two or more nodes)
InitDashboard ==
    /\ dp_enabled \in BOOLEAN
    /\ dp_sigma \in DashSigmas
    /\ n_hospitals = 2
    /\ hospitals = <<HospitalNode(1, 799), HospitalNode(2, 150)>>
    /\ global_weights = Tensor(<<"init", 0>>, 0)
    /\ round_history = <<>>
    /\ registry = EmptyRegistry
    /\ pc = "render"
    /\ sim_r = 1
    /\ sim_n \in DashRounds
    /\ ret = NoCall
    /\ round_locals = NoRound
    /\ execs = 0
    /\ noisy_draws = 0
    /\ calls = 0
    /\ NoServer

\* one iteration of render's loop: result = engine.run_round(round_num)
RenderRound ==
    /\ pc = "render"
    /\ ~range_done(sim_r, sim_n)
    /\ IF round_raises
       THEN /\ ret' = Raised("render", sim_n)
            /\ pc' = "idle"
            /\ sim_r' = sim_r
            /\ RoundAborts(sim_r)
       ELSE \E noise \in NoiseChoices, div \in DivDraws :
               /\ RoundWrites(sim_r, quiet_loop(sim_r, n_hospitals), noise, div)
               /\ ret' = Returned("run_round", sim_r, <<Last(round_history')>>)
               /\ IF render_break(Last(round_history'), sim_r)
                  THEN pc' = "render_summary" /\ sim_r' = sim_r
                  ELSE pc' = pc /\ sim_r' = sim_r + 1
    /\ hospitals' = nodes_after_round
    /\ UNCHANGED <<server, config, sim_n, calls>>

\* render's loop has run through its range
RenderLoopEnd ==
    /\ pc = "render"
    /\ range_done(sim_r, sim_n)
    /\ pc' = "render_summary"
    /\ UNCHANGED <<server, config, hospitals, global_weights, round_history, registry,
                   sim_r, sim_n, ret, round_locals, execs, noisy_draws, calls>>

\* summary = engine.get_summary()
RenderSummary ==
    /\ pc = "render_summary"
    /\ pc' = "idle"
    /\ ret' = IF round_history = <<>> THEN Returned("get_summary", 0, <<>>)
              ELSE IF get_best(registry) = <<>> THEN Raised("get_summary", 0)
              ELSE Returned("get_summary", 0,
                            <<summary_of(round_history, registry)>>)
    /\ UNCHANGED <<server, config, hospitals, global_weights, round_history, registry,
                   sim_r, sim_n, round_locals, execs, noisy_draws, calls>>

NextDashboard ==
    \/ RenderRound
    \/ RenderLoopEnd
    \/ RenderSummary

SpecDashboard == InitDashboard /\ [][NextDashboard]_vars

-----------------------------------------------------------------------------
(* The registry on its own: save_version called with any arguments *)

\* save_version calls made on one registry
MaxSaves == 3
\* version_id arguments
VersionIds == {1, 2, 3}
\* accuracy arguments (0.50, 0.60, 0.70, 0.80)
SaveAccuracies == {500, 600, 700, 800}

\* no engine is in use: a registry or a function on its own, or the server
NoEngine ==
    /\ dp_enabled = FALSE
    /\ dp_sigma = 0
    /\ n_hospitals = 0
    /\ hospitals = <<>>
    /\ global_weights = Tensor(<<"init", 0>>, 0)
    /\ round_history = <<>>
    /\ registry = EmptyRegistry
    /\ pc = "idle"
    /\ sim_r = 0
    /\ sim_n = 0
    /\ ret = NoCall
    /\ round_locals = NoRound
    /\ execs = 0
    /\ noisy_draws = 0
    /\ calls = 0

InitRegistry == NoEngine /\ NoServer

\* ModelRegistry.save_version(version_id, weights, accuracy), called directly
SaveVersion(version_id, accuracy) ==
    /\ calls < MaxSaves
    /\ calls' = calls + 1
    /\ registry' = save_version(registry, version_id,
                                Tensor(<<"argument", calls + 1>>, calls + 1),
                                accuracy)
    /\ ret' = Returned("save_version", <<version_id, accuracy>>, <<>>)
    /\ UNCHANGED <<server, config, hospitals, global_weights, round_history, pc,
                   sim_r, sim_n, round_locals, execs, noisy_draws>>

NextRegistry ==
    \E version_id \in VersionIds, accuracy \in SaveAccuracies :
        SaveVersion(version_id, accuracy)

SpecRegistry == InitRegistry /\ [][NextRegistry]_vars

\* version_id is an unchecked int: the ids above and the value of the
\* best_version_id sentinel
AnyVersionIds == VersionIds \cup {NoBest}

NextRegistryAnyId ==
    \E version_id \in AnyVersionIds, accuracy \in SaveAccuracies :
        SaveVersion(version_id, accuracy)

SpecRegistryAnyId == InitRegistry /\ [][NextRegistryAnyId]_vars

-----------------------------------------------------------------------------
(* _compute_epsilon on its own: two calls with the same n_samples *)

\* pairs of _compute_epsilon calls made
MaxEpsCalls == 2
\* sigma arguments (0.00 .. 0.12, 0.29, 0.30, 1.50, 3.00)
EpsSigmas == (0..12) \cup {29, 30, 150, 300}
\* n_samples arguments
EpsSamples == {150, 799}

\* _compute_epsilon(sigma1, n_samples) and _compute_epsilon(sigma2, n_samples)
ComputeEpsilon(sigma1, sigma2, n_samples) ==
    /\ calls < MaxEpsCalls
    /\ calls' = calls + 1
    /\ ret' = Returned("_compute_epsilon", <<sigma1, sigma2, n_samples>>,
                       <<compute_epsilon(sigma1, n_samples),
                         compute_epsilon(sigma2, n_samples)>>)
    /\ UNCHANGED <<server, config, hospitals, global_weights, round_history, registry,
                   pc, sim_r, sim_n, round_locals, execs, noisy_draws>>

NextEpsilon ==
    \E sigma1 \in EpsSigmas, sigma2 \in EpsSigmas, n_samples \in EpsSamples :
        ComputeEpsilon(sigma1, sigma2, n_samples)

SpecEpsilon == InitRegistry /\ [][NextEpsilon]_vars

-----------------------------------------------------------------------------
(* _fedavg_aggregate on its own, on one coordinate of the weight tensors *)

\* _fedavg_aggregate calls made
MaxAggCalls == 2
\* lengths of the two argument lists
AggLens == 0..3
\* a coordinate of a local weight tensor
WeightChoices == {-3, 0, 4}
\* a node's n_samples
CountChoices == {150, 799}

\* _fedavg_aggregate(local_weights, sample_counts), counts being the
\* sample_counts argument
FedAvgAggregate(local_weights, counts) ==
    /\ calls < MaxAggCalls
    /\ calls' = calls + 1
    /\ ret' = IF aggregate_raises(local_weights, counts)
              THEN Raised("_fedavg_aggregate", <<local_weights, counts>>)
              ELSE Returned("_fedavg_aggregate",
                            <<local_weights, counts>>,
                            <<fedavg_aggregate(local_weights, counts)>>)
    /\ UNCHANGED <<server, config, hospitals, global_weights, round_history, registry,
                   pc, sim_r, sim_n, round_locals, execs, noisy_draws>>

NextAggregate ==
    \E k \in AggLens, l \in AggLens :
        \E local_weights \in [1..k -> WeightChoices],
           counts \in [1..l -> CountChoices] :
            FedAvgAggregate(local_weights, counts)

SpecAggregate == InitRegistry /\ [][NextAggregate]_vars

-----------------------------------------------------------------------------
(* The API server's request queue, src/main.py: the analyze_full handlers  *)
(* put (future, content, note, metadata) on data_queue and await the        *)
(* future; the one FIFOProcessor.worker task started at startup takes the   *)
(* items.  _process_internal has no await: a taken item is processed, its   *)
(* future resolved and task_done called without another task running.      *)

\* /analyze/full requests received
MaxRequests == 3
\* what a request uploads: a readable image, bytes Image.open rejects, or
\* form fields PatientMetadata rejects
RequestKinds == {"image", "garbage", "bad_metadata"}

Pending == [state |-> "pending", value |-> <<>>]

\* FIFOProcessor._process_internal(content, note, metadata): the result is
\* computed from the arguments; Image.open raises on unreadable bytes
process_internal(content) ==
    IF content.kind = "garbage"
    THEN [raised |-> TRUE, value |-> "UnidentifiedImageError"]
    ELSE [raised |-> FALSE, value |-> [diagnosis_of |-> content]]

\* mutant: the newest item is taken
queue_get_newest(queue) ==
    [item |-> queue[Len(queue)], rest |-> SubSeq(queue, 1, Len(queue) - 1)]

\* asyncio.Queue.get on a non-empty queue: the oldest item
queue_get(queue) == [item |-> Head(queue), rest |-> Tail(queue)]

\* mutant: there is no except clause, the exception ends the worker
worker_after_uncaught(outcome) ==
    IF outcome.raised THEN [pc |-> "dead", item |-> <<>>]
    ELSE [pc |-> "get", item |-> <<>>]

\* the worker after try/except/finally: back at the top of while True,
\* whether _process_internal returned or raised an Exception
worker_after(outcome) == [pc |-> "get", item |-> <<>>]

\* startup_event has created the worker task; no request yet
InitServer ==
    /\ NoEngine
    /\ data_queue = <<>>
    /\ futures = <<>>
    /\ worker = [pc |-> "get", item |-> <<>>]
    /\ handlers = <<>>
    /\ put_log = <<>>
    /\ task_done_calls = <<>>

\* analyze_full starts for a new request and awaits file.read()
RequestArrives(kind) ==
    /\ Len(handlers) < MaxRequests
    /\ handlers' = Append(handlers,
                          [pc |-> "read",
                           content |-> [kind |-> kind,
                                        upload |-> Len(handlers) + 1],
                           response |-> "none"])
    /\ UNCHANGED <<engine, data_queue, futures, worker, put_log,
                   task_done_calls>>

\* analyze_full after file.read(): PatientMetadata validation (ValueError
\* -> 400), else the future is created and the item put on the queue
HandlerPut(h) ==
    /\ handlers[h].pc = "read"
    /\ IF handlers[h].content.kind = "bad_metadata"
       THEN /\ handlers' = [handlers EXCEPT ![h].pc = "returned",
                                            ![h].response = "400"]
            /\ UNCHANGED <<data_queue, futures, put_log, task_done_calls>>
       ELSE /\ handlers' = [handlers EXCEPT ![h].pc = "await"]
            /\ futures' = [k \in (DOMAIN futures) \cup {h} |->
                              IF k = h THEN Pending ELSE futures[k]]
            /\ data_queue' = Append(data_queue,
                                    [future |-> h,
                                     content |-> handlers[h].content])
            /\ put_log' = Append(put_log, h)
            /\ task_done_calls' = [k \in (DOMAIN task_done_calls) \cup {h} |->
                                      IF k = h THEN 0 ELSE task_done_calls[k]]
    /\ UNCHANGED <<engine, worker>>

\* analyze_full resumes from `await future`: the result gives the 200
\* response, the exception is re-raised and gives the 500 response
HandlerResume(h) ==
    /\ handlers[h].pc = "await"
    /\ futures[h].state # "pending"
    /\ handlers' = [handlers EXCEPT
                       ![h].pc = "returned",
                       ![h].response = IF futures[h].state = "result"
                                       THEN "200" ELSE "500"]
    /\ UNCHANGED <<engine, data_queue, futures, worker, put_log,
                   task_done_calls>>

\* worker: await data_queue.get() returns an item
WorkerGet ==
    /\ worker.pc = "get"
    /\ data_queue # <<>>
    /\ worker' = [pc |-> "process", item |-> <<queue_get(data_queue).item>>]
    /\ data_queue' = queue_get(data_queue).rest
    /\ UNCHANGED <<engine, futures, handlers, put_log, task_done_calls>>

\* worker: _process_internal, then set_result or set_exception on the
\* item's future, then task_done in the finally clause
WorkerProcess ==
    /\ worker.pc = "process"
    /\ LET item == worker.item[1]
           outcome == process_internal(item.content)
       IN  /\ futures' = [futures EXCEPT ![item.future] =
                             [state |-> IF outcome.raised THEN "exception"
                                        ELSE "result",
                              value |-> outcome.value]]
           /\ task_done_calls' =
                 [task_done_calls EXCEPT ![item.future] = @ + 1]
           /\ worker' = worker_after(outcome)
    /\ UNCHANGED <<engine, data_queue, handlers, put_log>>

NextServer ==
    \/ \E kind \in RequestKinds : RequestArrives(kind)
    \/ \E h \in DOMAIN handlers : HandlerPut(h)
    \/ \E h \in DOMAIN handlers : HandlerResume(h)
    \/ WorkerGet
    \/ WorkerProcess

SpecServer == InitServer /\ [][NextServer]_vars

\* the event loop runs the worker task whenever it is ready
FairSpecServer ==
    /\ SpecServer
    /\ WF_vars(WorkerGet)
    /\ WF_vars(WorkerProcess)

-----------------------------------------------------------------------------
(* Claims *)

Rollback == "Safe Rollback Applied"

Records == {round_history[i] : i \in 1..Len(round_history)}

\* C1: a round recorded while a best version exists has a global_accuracy not
\* more than 0.05 below the best accuracy before the round; if the candidate
\* accuracy is further below, the round is marked rollback-applied and its
\* global_accuracy is that best accuracy.
C1_RollbackBound ==
    round_history # <<>> /\ round_locals.prev_best # <<>> =>
        LET rec == Last(round_history)
            best_before == round_locals.prev_best[1].accuracy
        IN  /\ rec.global_accuracy >= best_before - RollbackMargin
            /\ round_locals.global_acc < best_before - RollbackMargin =>
                  /\ rec.secure_agg_status = Rollback
                  /\ rec.global_accuracy = best_before

C1_Witness ==
    /\ round_history # <<>>
    /\ round_locals.prev_best # <<>>
    /\ round_locals.global_acc
          < round_locals.prev_best[1].accuracy - RollbackMargin
    /\ Last(round_history).round_num > round_locals.prev_best[1].version_id

\* C2: a round is marked rollback-applied iff a best version existed before it
\* and the candidate accuracy was more than 0.05 below that version's; then the
\* global weights are the best version's weights, otherwise the freshly
\* aggregated candidate.  A round on an empty registry is never rolled back.
C2_RollbackIff ==
    round_history # <<>> =>
        LET rec == Last(round_history)
            prev == round_locals.prev_best
            rolled == rec.secure_agg_status = Rollback
        IN  /\ rolled <=> /\ prev # <<>>
                          /\ round_locals.global_acc
                                < prev[1].accuracy - RollbackMargin
            /\ rolled => global_weights = prev[1].weights
            /\ ~rolled => global_weights = round_locals.new_global
            /\ prev = <<>> => ~rolled

C2_Witness ==
    /\ round_history # <<>>
    /\ Last(round_history).secure_agg_status = Rollback
    /\ global_weights = round_locals.prev_best[1].weights
    /\ global_weights # round_locals.new_global

C4_ConvergedFlag ==
    \A rec \in Records :
        rec.converged <=> /\ rec.weight_divergence < DivergenceThreshold
                          /\ rec.round_num >= ConvergenceFloor

C4_Witness ==
    /\ \E rec \in Records :
          /\ rec.round_num < ConvergenceFloor
          /\ rec.weight_divergence < DivergenceThreshold
          /\ ~rec.converged
    /\ \E rec \in Records :
          /\ rec.converged
          /\ rec.secure_agg_status = Rollback

\* a run_simulation call has returned normally and nothing was called since
SimReturned == pc = "idle" /\ ret.op = "run_simulation" /\ ~ret.raised

StopSignal(rec) == rec.converged /\ rec.round_num > EarlyStopAfter

\* C5: run_simulation stops early exactly at the first round r > 15 whose
\* record is converged: the loop goes on while no such record exists
\* (converged records of rounds <= 15 included), and the returned history
\* ends with the first such record, or is of full length.
C5_EarlyStop ==
    /\ pc = "sim" => \A rec \in Records : ~StopSignal(rec)
    /\ SimReturned =>
          LET h == ret.value
          IN  /\ round_history = h
              /\ \A i \in 1..(Len(h) - 1) : ~StopSignal(h[i])
              /\ Len(h) < ret.arg => Len(h) > 0 /\ StopSignal(Last(h))
              /\ Len(h) <= ret.arg

\* converged at a round <= 15, loop went on, stopped at 16 of 17
C5_Witness ==
    /\ SimReturned
    /\ ret.arg = 17
    /\ Len(ret.value) = 16
    /\ \E i \in 1..15 : ret.value[i].converged

\* C6: run_simulation(n_rounds) terminates: inside the loop r stays within
\* 1..n_rounds+1 and the history holds exactly the rounds 1..r-1, so every
\* iteration has advanced r towards the bound.  When no round raises it
\* returns the rounds 1..k in order with k <= n_rounds, k = n_rounds unless the
\* last record is an early stop, hence k = n_rounds for n_rounds <= 15.
C6_Terminates ==
    /\ pc = "sim" =>
          /\ sim_r \in 1..(sim_n + 1)
          /\ Len(round_history) = sim_r - 1
          /\ \A i \in 1..Len(round_history) : round_history[i].round_num = i
    /\ SimReturned =>
          LET h == ret.value
          IN  /\ \A i \in 1..Len(h) : h[i].round_num = i
              /\ Len(h) <= ret.arg
              /\ Len(h) < ret.arg => StopSignal(Last(h))
              /\ ret.arg <= EarlyStopAfter => Len(h) = ret.arg

C6_Witness ==
    /\ SimReturned
    /\ ret.arg = 2
    /\ Len(ret.value) = 2
    /\ Cardinality(DOMAIN registry.versions) > 2

\* C7: the round_num values of the history start at 1 and increase by 1.
C7_ConsecutiveRoundNums ==
    \A i \in 1..Len(round_history) : round_history[i].round_num = i

\* C8: the history is append-only: every step leaves the history it found as
\* a prefix of the history it leaves.
C8_AppendOnly ==
    [][/\ Len(round_history) <= Len(round_history')
       /\ SubSeq(round_history', 1, Len(round_history)) = round_history]_vars

\* sqrt(2 * ln(1.25 / delta)) / sigma, to the model's resolution, sigma # 0
IsEpsilonOf(eps, sigma) ==
    LET a == IF sigma > 0 THEN sigma ELSE -sigma
        v == IF sigma > 0 THEN eps.val ELSE -eps.val
    IN  /\ ~eps.inf
        /\ v * a <= EpsFactor * SigmaScale
        /\ EpsFactor * SigmaScale < (v + 1) * a

\* C9: a recorded privacy_epsilon is 0.0 when dp is disabled, and the round
\* made no noise-injection call; with dp enabled it is +infinity for
\* dp_sigma = 0 and sqrt(2 ln(1.25/1e-5)) / dp_sigma otherwise.
C9_Epsilon ==
    /\ \A rec \in Records :
          IF ~dp_enabled THEN rec.privacy_epsilon = Fin(0)
          ELSE IF dp_sigma = 0 THEN rec.privacy_epsilon.inf
          ELSE IsEpsilonOf(rec.privacy_epsilon, dp_sigma)
    /\ ~dp_enabled => round_locals.dp_noise_calls = 0

C9_Witness ==
    /\ dp_enabled
    /\ dp_sigma > 0
    /\ n_hospitals = 2
    /\ Len(round_history) = 2
    /\ round_locals.dp_noise_calls = 2

\* C10: a recorded privacy_epsilon is non-negative or +infinity, whatever the
\* configuration (a negative dp_sigma included).
C10_EpsilonNonNegative ==
    \A rec \in Records :
        rec.privacy_epsilon.inf \/ rec.privacy_epsilon.val >= 0

\* a round recorded under a negative dp_sigma
C10_Witness ==
    /\ dp_sigma < 0
    /\ round_history # <<>>

\* eps1 > eps2 on floats with +infinity
EpsGreater(eps1, eps2) ==
    /\ ~eps2.inf
    /\ eps1.inf \/ eps1.val > eps2.val

\* C11: for a fixed n_samples (and delta) the epsilon is strictly decreasing
\* in sigma: epsilon(sigma1) > epsilon(sigma2) whenever 0 < sigma1 < sigma2,
\* and epsilon(0) is +infinity.
C11_EpsilonDecreasing ==
    ret.op = "_compute_epsilon" =>
        LET sigma1 == ret.arg[1]
            sigma2 == ret.arg[2]
        IN  /\ 0 < sigma1 /\ sigma1 < sigma2 =>
                  /\ ~ret.value[1].inf
                  /\ EpsGreater(ret.value[1], ret.value[2])
            /\ sigma1 = 0 => ret.value[1] = Inf

\* neighbouring sigmas 0.29 < 0.30, after a call with sigma = 0
C11_Witness ==
    /\ ret.op = "_compute_epsilon"
    /\ ret.arg[1] = 29
    /\ ret.arg[2] = 30
    /\ ret.value[1].val > ret.value[2].val
    /\ calls = 2

\* C12: with dp enabled, the privacy_epsilon of a recorded round is the
\* epsilon computed with the smallest n_samples among the nodes of the round
\* as its n_samples argument, not with another node's n_samples.
C12_WorstCaseNode ==
    dp_enabled /\ round_history # <<>> =>
        /\ \E i \in 1..n_hospitals :
              round_locals.eps_n_samples = hospitals[i].n_samples
        /\ \A i \in 1..n_hospitals :
              round_locals.eps_n_samples <= hospitals[i].n_samples
        /\ Last(round_history).privacy_epsilon
              = compute_epsilon(dp_sigma, round_locals.eps_n_samples)

\* two nodes, the smaller one is not the first
C12_Witness ==
    /\ dp_enabled
    /\ n_hospitals = 2
    /\ hospitals[2].n_samples < hospitals[1].n_samples
    /\ round_history # <<>>
    /\ round_locals.eps_n_samples = hospitals[2].n_samples
    /\ ~Last(round_history).privacy_epsilon.inf

\* a _fedavg_aggregate call with one sample count per local weight returned
AggregateReturned ==
    /\ ret.op = "_fedavg_aggregate"
    /\ ~ret.raised
    /\ Len(ret.arg[1]) = Len(ret.arg[2])

\* C13: the aggregate is the sample-count-weighted mean of the local weights,
\* sum_k (n_k / N) * W_k with N = sum_k n_k, the factors n_k / N adding up to
\* one; two nodes of equal count give (W_a + W_b) / 2 and a single node gives
\* its own weights.
C13_WeightedMean ==
    AggregateReturned =>
        LET W == ret.arg[1]
            n == ret.arg[2]
            K == 1..Len(W)
            agg == ret.value[1]
            N == SumFirst(n, Len(n))
            weighted == SumFirst([k \in K |-> n[k] * W[k]], Len(W))
        IN  /\ agg.den # 0
            /\ agg.num * N = weighted * agg.den
            /\ SumFirst([k \in K |-> n[k] * agg.den], Len(W)) = N * agg.den
            /\ Len(W) = 2 /\ n[1] = n[2] =>
                  2 * agg.num = (W[1] + W[2]) * agg.den
            /\ Len(W) = 1 => agg.num = W[1] * agg.den

\* two nodes of different counts and different weights
C13_Witness ==
    /\ AggregateReturned
    /\ Len(ret.arg[1]) = 2
    /\ ret.arg[1][1] # ret.arg[1][2]
    /\ ret.arg[2][1] > ret.arg[2][2]
    /\ ret.value[1].num # 0

\* C14: _fedavg_aggregate fails with an error whenever local_weights is empty
\* or local_weights and sample_counts differ in length.
C14_AggregateRejects ==
    /\ ret.op = "_fedavg_aggregate"
    /\ \/ ret.arg[1] = <<>>
       \/ Len(ret.arg[1]) # Len(ret.arg[2])
    => ret.raised

\* C15: an engine with no nodes or with a negative dp_sigma (dp enabled or
\* not) never completes and records a round.
C15_InvalidConfigRejected ==
    n_hospitals = 0 \/ dp_sigma < 0 => round_history = <<>>

\* a step in which run_round or run_simulation ends with an exception
AbortStep ==
    /\ ret'.raised
    /\ ret'.op \in {"run_round", "run_simulation"}
    /\ calls' # calls \/ pc = "sim"

\* C16: a run_round or run_simulation call that ends with an exception leaves
\* no FLRound of the failing round in the history, no version of it in the
\* registry, and the global weights it found.
C16_NoPartialResult ==
    [][AbortStep =>
          /\ round_history' = round_history
          /\ registry' = registry
          /\ global_weights' = global_weights]_vars

\* run_simulation(2) was aborted by its first round
C16_Witness ==
    /\ ret.raised
    /\ ret.op = "run_simulation"
    /\ ret.arg = 2
    /\ calls = 2
    /\ round_history = <<>>
    /\ registry = EmptyRegistry

\* C17: every recorded FLRound, rolled back or not, has a global_accuracy
\* within [0.50, 0.99], a global_loss of 1 - global_accuracy, and a
\* node_accuracies map with exactly one entry per hospital node, each value
\* within [0.50, 0.99].
C17_RecordRanges ==
    \A rec \in Records :
        /\ rec.global_accuracy >= AccMin
        /\ rec.global_accuracy <= AccMax
        /\ rec.global_loss = AccScale - rec.global_accuracy
        /\ DOMAIN rec.node_accuracies
              = {hospitals[i].node_id : i \in 1..Len(hospitals)}
        /\ Cardinality(DOMAIN rec.node_accuracies) = n_hospitals
        /\ \A id \in DOMAIN rec.node_accuracies :
              /\ rec.node_accuracies[id] >= AccMin
              /\ rec.node_accuracies[id] <= AccMax

\* two nodes, a node draw that the clip cut, then a rolled-back round
C17_Witness ==
    /\ Len(round_history) = 2
    /\ n_hospitals = 2
    /\ \E id \in DOMAIN round_history[1].node_accuracies :
          round_history[1].node_accuracies[id] = AccMax
    /\ round_history[2].secure_agg_status = Rollback
    /\ round_history[2].global_accuracy > round_history[2].node_accuracies[2]

\* the updates of the running round were each computed from the current
\* global weights and the node's own n_samples
OwnUpdates ==
    \A k \in 1..Len(round_locals.local_weights) :
        /\ round_locals.local_weights[k].base = global_weights
        /\ round_locals.local_weights[k].n_samples = hospitals[k].n_samples

\* C19: inside a round every node's update is computed from the global
\* weights of the round's start and the node's own n_samples; the global
\* weights are not written, and no round is recorded, before the updates of
\* all n_hospitals nodes are there.
C19_Barrier ==
    [][pc = "round" =>
          /\ OwnUpdates
          /\ pc' = "round" => global_weights' = global_weights
          /\ global_weights' # global_weights
                \/ round_history' # round_history
                \/ registry' # registry =>
                /\ Len(round_locals.local_weights) = n_hospitals
                /\ round_locals'.local_weights = round_locals.local_weights
      ]_vars

\* second round of a two-node engine, both updates there, from weights that
\* the first round wrote
C19_Witness ==
    /\ pc = "round"
    /\ n_hospitals = 2
    /\ Len(round_locals.local_weights) = 2
    /\ round_history # <<>>
    /\ round_locals.local_weights[2].base = global_weights
    /\ round_locals.local_weights[2].n_samples
          # round_locals.local_weights[1].n_samples

\* C20: no version of the registry holds the array object that is the
\* engine's global weights, after a rolled-back round included.
C20_SnapshotsIndependent ==
    \A v \in DOMAIN registry.versions :
        registry.versions[v].weights.id # global_weights.id

\* get_summary has returned and nothing was called since
SummaryReturned == ret.op = "get_summary" /\ ~ret.raised

\* C21: get_summary returns an empty mapping on an empty history; otherwise
\* total_rounds is the length of the history, final_accuracy, converged and
\* final_epsilon are those of the last record, and best_accuracy, best_round
\* are the global_accuracy and round_num of a record of the history whose
\* global_accuracy is maximal in the history.
C21_Summary ==
    SummaryReturned =>
        IF round_history = <<>> THEN ret.value = <<>>
        ELSE LET summary == ret.value[1]
                 final == Last(round_history)
             IN  /\ summary.total_rounds = Len(round_history)
                 /\ summary.final_accuracy = final.global_accuracy
                 /\ summary.converged = final.converged
                 /\ summary.final_epsilon = final.privacy_epsilon
                 /\ \E rec \in Records :
                       /\ rec.global_accuracy = summary.best_accuracy
                       /\ rec.round_num = summary.best_round
                       /\ \A other \in Records :
                             other.global_accuracy <= rec.global_accuracy

\* C22: get_best() and get_latest() return None on a registry with no saved
\* version, and a stored version once a save_version call has completed.
C22_BestAndLatest ==
    IF calls = 0
    THEN get_best(registry) = <<>> /\ get_latest(registry) = <<>>
    ELSE /\ get_best(registry) # <<>>
         /\ get_latest(registry) # <<>>
         /\ \E k \in DOMAIN registry.versions :
               get_best(registry)[1] = registry.versions[k]
         /\ \E k \in DOMAIN registry.versions :
               get_latest(registry)[1] = registry.versions[k]

\* C23: the dashboard's loop over run_round stops early only on a converged
\* record of a round after round 15; a converged record at or before round
\* 15 does not stop it.
C23_DashboardEarlyStop ==
    pc = "render_summary" /\ Len(round_history) < sim_n =>
        StopSignal(Last(round_history))

Resolved(h) == futures[h].state # "pending"

\* C25: the worker processes the requests in the order of their put, one at
\* a time: processing of a request starts only after the future of every
\* request put before it is resolved, and a future's result is the one
\* computed from its own request's inputs, under any interleaving of the
\* handlers.
C25_FifoOrder ==
    /\ Len(worker.item) <= 1
    /\ worker.pc = "process" =>
          \A i \in 1..Len(put_log) :
              \A j \in 1..(i - 1) :
                  put_log[i] = worker.item[1].future => Resolved(put_log[j])
    /\ \A i \in 1..Len(put_log) :
          \A j \in 1..(i - 1) :
              Resolved(put_log[i]) => Resolved(put_log[j])
    /\ \A h \in DOMAIN futures :
          futures[h].state = "result" =>
              futures[h].value = [diagnosis_of |-> handlers[h].content]

\* three requests, the second put before the first; two are resolved, one
\* with an exception, and the worker is processing the last
C25_Witness ==
    /\ put_log = <<2, 1, 3>>
    /\ worker.pc = "process"
    /\ worker.item[1].future = 3
    /\ futures[2].state = "exception"
    /\ futures[1].state = "result"
    /\ futures[3].state = "pending"

\* an exception is in the future of the request whose processing raised it,
\* and task_done was called once for every request taken and processed
ExceptionDelivered ==
    /\ worker.pc # "dead"
    /\ \A h \in DOMAIN futures :
          /\ futures[h].state = "exception" <=>
                /\ Resolved(h)
                /\ process_internal(handlers[h].content).raised
          /\ task_done_calls[h] = IF Resolved(h) THEN 1 ELSE 0

\* C30: when processing a request raises an exception, the worker delivers
\* it to that request's future only, calls task_done once for the item and
\* keeps running: every request put on the queue, after a failed one
\* included, is eventually taken and its future resolved.
C30_WorkerSurvives ==
    /\ []ExceptionDelivered
    /\ \A h \in 1..MaxRequests :
          (h \in DOMAIN futures) ~> (h \in DOMAIN futures /\ Resolved(h))

\* the first request put failed, the ones put after it got their results
C30_Witness ==
    /\ Len(put_log) = 3
    /\ futures[put_log[1]].state = "exception"
    /\ futures[put_log[2]].state = "result"
    /\ futures[put_log[3]].state = "result"
    /\ \A h \in DOMAIN task_done_calls : task_done_calls[h] = 1

\* C26: after any sequence of save_version calls, reused version ids
\* included, get_best() returns a stored version whose accuracy is at least
\* that of every version stored.
C26_BestIsMaximal ==
    calls > 0 =>
        /\ get_best(registry) # <<>>
        /\ \A k \in DOMAIN registry.versions :
              registry.versions[k].accuracy <= get_best(registry)[1].accuracy

\* C27: the registry holds, for the round_num of every record of the
\* history (rolled-back rounds included), a version whose accuracy is the
\* record's global_accuracy; so get_best() is not None when the history is
\* not empty, and get_summary does not fall back to the FLRound.
C27_VersionPerRecord ==
    /\ \A rec \in Records :
          /\ rec.round_num \in DOMAIN registry.versions
          /\ registry.versions[rec.round_num].accuracy = rec.global_accuracy
    /\ round_history # <<>> => get_best(registry) # <<>>
    /\ ret.op = "get_summary" => ~ret.raised

\* a step in which a run_round call returns its record
RoundReturns ==
    /\ ret'.op = "run_round"
    /\ ~ret'.raised
    /\ calls' = calls + 1

\* C28: across run_round calls the accuracy of registry.get_best() never
\* decreases, and a round that was rolled back does not become the best
\* version: best_version_id is the same after it as before it.
C28_BestMonotone ==
    [][RoundReturns /\ get_best(registry) # <<>> =>
          /\ get_best(registry') # <<>>
          /\ get_best(registry')[1].accuracy >= get_best(registry)[1].accuracy
          /\ Last(round_history').secure_agg_status = Rollback =>
                registry'.best_version_id = registry.best_version_id]_vars

\* the budget of a configuration, computed for a single sample
ConfigEpsilon ==
    IF dp_enabled THEN compute_epsilon(dp_sigma, 1) ELSE Fin(0)

\* C29: every recorded round of an engine carries the same privacy_epsilon,
\* the value dp_enabled and dp_sigma determine: it does not grow with the
\* number of rounds and does not vary with the nodes' sample counts.
C29_EpsilonConstant ==
    /\ \A rec \in Records : rec.privacy_epsilon = ConfigEpsilon
    /\ \A r1, r2 \in Records : r1.privacy_epsilon = r2.privacy_epsilon

\* three rounds recorded with dp enabled on two nodes of different size
C29_Witness ==
    /\ dp_enabled
    /\ dp_sigma > 0
    /\ n_hospitals = 2
    /\ hospitals[1].n_samples # hospitals[2].n_samples
    /\ Len(round_history) > 2
    /\ round_history[1].round_num # round_history[3].round_num

====
